---- MODULE Spec2Model ----
(***************************************************************************)
(* Model of tectonic's resource finder (src/find.rs) and of the buffered   *)
(* primary input (src/io/stdstreams.rs).                                   *)
(*                                                                         *)
(* A path is a sequence of components and a component is a sequence of     *)
(* tokens: "d/a.tex" is << <<"d">>, <<"a", ".tex">> >>.  Appending an      *)
(* extension to a component appends one token, so string equality of two   *)
(* paths is equality of their token sequences.                             *)
(***************************************************************************)
EXTENDS Integers, Sequences, FiniteSets, TLC

VARIABLES
    disk,       \* paths of the files File::open can open
    tmpNames,   \* temporary names currently in the filesystem namespace
    inodes,     \* temporary inode -> bytes, for inodes with a name or an open handle
    fds,        \* open raw descriptors owned by the host: number -> [file, pos]
    singleton,  \* SINGLETON's value: None or the bundle its FinderState wraps
    poisoned,   \* SINGLETON's mutex is poisoned
    last,       \* the most recent call: its arguments, return value and what it did
    buffer,     \* BufferedPrimaryIo's shared buffer
    cursors,    \* the cursors input_open_primary handed out, oldest first
    lastIo,     \* the most recent operation on the buffered input and what it returned
    fmt,        \* one format request: the numeric code, its tag, a name and its augmented forms
    strm,       \* one from_stream call: its array, the data gathered, the reads made, its result
    thr,        \* per thread: where it is in its call of get_readable_fd or open_bundle
    holder      \* the thread that owns the MutexGuard of SINGLETON, 0 when none does

finderVars == <<disk, tmpNames, inodes, fds, singleton, poisoned, last>>

ioVars == <<buffer, cursors, lastIo>>

fmtVars == <<fmt>>

strmVars == <<strm>>

concVars == <<thr, holder>>

None == "None"

(***************************** bounds *************************************)
MaxFds == 2         \* descriptors the host holds open at once
MaxTextLen == 2     \* characters of the text given to from_text
MaxCursors == 2     \* cursors open at once on the buffered input
MaxCode == 30       \* numeric format codes run over -MaxCode .. MaxCode and the c_int limits
BufLen == 2         \* length of from_stream's array, standing for its 8192 bytes
MaxReads == 3       \* reads that deliver bytes before the stream ends or fails
NumThreads == 2     \* threads of the host that call get_readable_fd and open_bundle

(***************************** formats ************************************)
FileFormat == {"TFM", "Pict", "Tex", "Format"}

\* faulty variant: the codes of pictures and of TeX sources change places
c_format_to_rust_swapped(format) ==
    CASE format = 3  -> "TFM"
      [] format = 10 -> "Format"
      [] format = 25 -> "Tex"
      [] format = 26 -> "Pict"
      [] OTHER       -> None

\* c_format_to_rust (find.rs 25-34): the tag of a kpse_file_format_type code, or None
c_format_to_rust(format) ==
    CASE format = 3  -> "TFM"
      [] format = 10 -> "Format"
      [] format = 25 -> "Pict"
      [] format = 26 -> "Tex"
      [] OTHER       -> None

format_to_extension(format) ==
    CASE format = "TFM"    -> ".tfm"
      [] format = "Pict"   -> ".pdf"
      [] format = "Tex"    -> ".tex"
      [] format = "Format" -> ".fmt"

(****************************** paths *************************************)
DotDot == <<"..">>

\* Path::file_name().is_some(): false for "" and for a path ending in ".."
HasFileName(path) ==
    /\ path # <<>>
    /\ path[Len(path)] # DotDot

\* Path::file_name: the final component (the empty component when there is none)
file_name(path) ==
    IF HasFileName(path) THEN path[Len(path)] ELSE <<>>

\* PathBuf::set_file_name: push when there is no file name, else pop then push
set_file_name(path, fname) ==
    IF HasFileName(path) THEN Append(SubSeq(path, 1, Len(path) - 1), fname)
    ELSE Append(path, fname)

\* find.rs 139-142: the extension-augmented name; unwrap() panics without a file name
ExtNameResolve(name, format) ==
    [panic |-> ~HasFileName(name),
     path  |-> set_file_name(name, Append(file_name(name), format_to_extension(format)))]

\* faulty variant: an extension the name already has is replaced (Path::with_extension)
ExtNameLocate_replace(name, format) ==
    [panic |-> ~HasFileName(name),
     path  |-> set_file_name(name, <<Head(file_name(name) \o <<"">>), format_to_extension(format)>>)]

\* find.rs 89-92: the same computation, repeated in FinderState::get_readable_fd
ExtNameLocate(name, format) ==
    [panic |-> ~HasFileName(name),
     path  |-> set_file_name(name, Append(file_name(name), format_to_extension(format)))]

P(s) == << <<s>> >>
PE(s, e) == << <<s, e>> >>

\* the names the host asks for
Names == { P("a"), P("b"), P("c"), PE("a", ".tex"), <<>>, << <<"m">>, DotDot >> }

\* the files that may exist on disk
DiskCandidates == { P("a"), PE("a", ".tex") }

DiskData(path) ==
    CASE path = P("a")           -> <<7>>
      [] path = PE("a", ".tex")  -> <<8, 8>>
      [] OTHER                   -> <<9>>

(***************************** bundles ************************************)
\* the paths open_bundle is called with
BundlePaths == {"b1.zip", "b2.zip", "junk.txt", "missing.zip"}

CanOpen(path) == path # "missing.zip"
IsArchive(path) == path \in {"b1.zip", "b2.zip"}

Absent == [kind |-> "absent", data |-> <<>>]
Good(d) == [kind |-> "good", data |-> d]
BadHeader == [kind |-> "badheader", data |-> <<>>]  \* by_name fails, not with FileNotFound
BadData(d) == [kind |-> "baddata", data |-> d]      \* by_name succeeds, reading fails after d

\* the entry of archive `zip` named `name`
Entry(zip, name) ==
    IF zip = "b1.zip" THEN
        CASE name = P("a")           -> Good(<<1>>)
          [] name = PE("a", ".tex")  -> Good(<<2, 2>>)
          [] name = PE("b", ".tfm")  -> Good(<<3, 4>>)
          [] name = P("c")           -> BadHeader
          [] name = PE("c", ".tex")  -> Good(<<5>>)
          [] name = PE("c", ".pdf")  -> BadData(<<6>>)
          [] name = PE("c", ".fmt")  -> BadHeader
          [] OTHER                   -> Absent
    ELSE IF zip = "b2.zip" THEN
        CASE name = P("a")           -> Good(<<10, 11>>)
          [] OTHER                   -> Absent
    ELSE Absent

(************************* files and descriptors ***************************)
\* the descriptor numbers the host can hold
FdNums == 3 .. (2 + MaxFds)

DiskFile(path) == [kind |-> "disk", path |-> path, ino |-> 0]
TempFile(t) == [kind |-> "temp", path |-> <<>>, ino |-> t]

Lowest(S) == CHOOSE n \in S : \A m \in S : n <= m

\* the number the next open() returns: the lowest one not in use
FreeFd(st) == Lowest(FdNums \ DOMAIN st.fds)

\* faulty variant: every temporary file is made under one and the same name
FreshIno_fixed(st) == Lowest(1 .. (Cardinality(DOMAIN st.inodes) + 1))

\* a temporary inode nothing refers to
FreshIno(st) == Lowest((1 .. (Cardinality(DOMAIN st.inodes) + 1)) \ DOMAIN st.inodes)

\* the inodes some name, descriptor or handle still refers to
Referenced(st) ==
    st.tmpNames \cup st.wh \cup st.rh
        \cup { st.fds[n].file.ino : n \in { k \in DOMAIN st.fds : st.fds[k].file.kind = "temp" } }

\* storage of an inode is released with its last name and handle
Reclaim(st) ==
    [st EXCEPT !.inodes = [i \in (DOMAIN st.inodes) \cap Referenced(st) |-> st.inodes[i]]]

\* File::open(path).into_raw_fd() on a disk file (find.rs 135-136, 144-145)
OpenDisk(st, path) ==
    [st EXCEPT !.fds = (FreeFd(st) :> [file |-> DiskFile(path), pos |-> 0]) @@ @]

\* the bytes a descriptor reads from offset 0
FileBytes(ino, file) ==
    IF file.kind = "disk" THEN DiskData(file.path)
    ELSE IF file.ino \in DOMAIN ino THEN ino[file.ino]
    ELSE <<>>

(*********************** FinderState::zip_to_temp_fd ***********************)
\* what the environment may break during an extraction
Faults == {"none", "mktemp", "create", "copy", "open"}

\* ZipArchive::by_name (find.rs 60-63)
by_name(zip, name) ==
    LET e == Entry(zip, name) IN
    CASE e.kind = "absent"    -> "FileNotFound"
      [] e.kind = "badheader" -> "Io"
      [] OTHER                -> "Ok"

\* Temp::new_file (find.rs 65): a new empty file under a name of its own
TempNewFile(st) ==
    LET t == FreshIno(st) IN
    [st EXCEPT !.temp = t,
               !.tmpNames = @ \cup {t},
               !.inodes = (t :> <<>>) @@ @,
               !.log = Append(@, "mktemp")]

\* File::create (find.rs 67): open the path for writing, creating or truncating it
FileCreate(st) ==
    [st EXCEPT !.tmpNames = @ \cup {st.temp},
               !.inodes = (st.temp :> <<>>) @@ @,
               !.wh = {st.temp},
               !.log = Append(@, "create")]

\* faulty variant: the copy stops one byte short of the entry's end
CopyEntry_short(st, data) ==
    [st EXCEPT !.inodes = [i \in DOMAIN @ |->
                              IF i \in st.wh THEN @[i] \o SubSeq(data, 1, Len(data) - 1)
                              ELSE @[i]],
               !.log = Append(@, "copy")]

\* io::copy (find.rs 68): write the entry's bytes through the write handle
CopyEntry(st, data) ==
    [st EXCEPT !.inodes = [i \in DOMAIN @ |->
                              IF i \in st.wh THEN @[i] \o data ELSE @[i]],
               !.log = Append(@, "copy")]

\* end of the block (find.rs 69): the write handle is dropped
CloseWrite(st) ==
    Reclaim([st EXCEPT !.wh = {}, !.log = Append(@, "close")])

\* File::open (find.rs 71) succeeds when the path still names a file
CanReopen(st) == st.temp \in st.tmpNames

FileOpen(st) ==
    [st EXCEPT !.rh = {st.temp}, !.log = Append(@, "open")]

\* into_raw_fd (find.rs 72): the read handle becomes a raw descriptor at offset 0
IntoRawFd(st) ==
    [st EXCEPT !.fds = (FreeFd(st) :> [file |-> TempFile(st.temp), pos |-> 0]) @@ @,
               !.rh = {},
               !.log = Append(@, "into_raw_fd")]

\* faulty variant: the temporary path is kept (the Temp is leaked instead of dropped)
TempDrop_keep(st) ==
    [st EXCEPT !.log = Append(@, "unlink")]

\* Drop of temp_file (find.rs 73, and on unwinding): the path is removed
TempDrop(st) ==
    Reclaim([st EXCEPT !.tmpNames = @ \ {st.temp}, !.log = Append(@, "unlink")])

Returned(tag, fd, why, st) == [tag |-> tag, fd |-> fd, why |-> why, st |-> st]

\* the result of one extraction: out is "Ok", "FileNotFound", "Io" or "Panic"
Extracted(out, fd, why, st, name) ==
    [out |-> out, fd |-> fd, why |-> why,
     st |-> [st EXCEPT !.attempts = Append(@, [name |-> name, out |-> out])]]

zip_to_temp_fd(st, zip, name, fault) ==
    LET found == by_name(zip, name)
        e  == Entry(zip, name)
        s1 == TempNewFile(st)
        s2 == FileCreate(s1)
        bad == e.kind = "baddata" \/ fault = "copy"
        s3 == CopyEntry(s2, e.data)
        s4 == CloseWrite(s3)
        s5 == FileOpen(s4)
        s6 == IntoRawFd(s5)
        s7 == TempDrop(s6)
    IN  IF found # "Ok" THEN Extracted(found, 0, "", st, name)
        ELSE IF fault = "mktemp" THEN Extracted("Panic", 0, "mktemp", st, name)
        ELSE IF fault = "create" THEN Extracted("Panic", 0, "create", TempDrop(s1), name)
        ELSE IF bad THEN Extracted("Panic", 0, "copy", TempDrop(CloseWrite(s3)), name)
        ELSE IF fault = "open" \/ ~CanReopen(s4) THEN Extracted("Panic", 0, "open", TempDrop(s4), name)
        ELSE Extracted("Ok", FreeFd(s5), "", s7, name)

\* faulty variant: must_exist turns a miss into a panic
FinderState_get_readable_fd_strict(st, zip, name, format, must_exist, fault) ==
    LET ext == ExtNameLocate(name, format)
        r1  == zip_to_temp_fd(st, zip, name, fault)
        r2  == zip_to_temp_fd(r1.st, zip, ext.path, fault)
    IN  IF ext.panic THEN Returned("Panic", 0, "file_name", st)
        ELSE IF r1.out = "Ok" THEN Returned("Some", r1.fd, "", r1.st)
        ELSE IF r1.out = "Panic" THEN Returned("Panic", 0, r1.why, r1.st)
        ELSE CASE r2.out = "Ok"           -> Returned("Some", r2.fd, "", r2.st)
               [] r2.out = "FileNotFound" ->
                    IF must_exist THEN Returned("Panic", 0, "must exist", r2.st)
                    ELSE Returned("None", 0, "failed to locate", r2.st)
               [] r2.out = "Io"           -> Returned("Panic", 0, "error reading bundle", r2.st)
               [] OTHER                   -> Returned("Panic", 0, r2.why, r2.st)

(********************* FinderState::get_readable_fd ************************)
\* find.rs 75-109.  The third parameter is the unnamed `_: bool`.
FinderState_get_readable_fd(st, zip, name, format, must_exist, fault) ==
    LET ext == ExtNameLocate(name, format)
        r1  == zip_to_temp_fd(st, zip, name, fault)
        r2  == zip_to_temp_fd(r1.st, zip, ext.path, fault)
    IN  IF ext.panic THEN Returned("Panic", 0, "file_name", st)
        ELSE IF r1.out = "Ok" THEN Returned("Some", r1.fd, "", r1.st)
        ELSE IF r1.out = "Panic" THEN Returned("Panic", 0, r1.why, r1.st)
        ELSE CASE r2.out = "Ok"           -> Returned("Some", r2.fd, "", r2.st)
               [] r2.out = "FileNotFound" -> Returned("None", 0, "failed to locate", r2.st)
               [] r2.out = "Io"           -> Returned("Panic", 0, "error reading bundle", r2.st)
               [] OTHER                   -> Returned("Panic", 0, r2.why, r2.st)

\* faulty variant: a panic under the lock leaves the mutex clean
PanicLocked_clean(r) == r

(************************** the global functions ***************************)
\* a panic while the MutexGuard is alive poisons the mutex
PanicLocked(r) == [r EXCEPT !.st.poisoned = TRUE]

\* FinderState::new (find.rs 51-57): Ok for a valid archive
FinderState_new(path) == IsArchive(path)

\* faulty variant: a file that is no archive empties the singleton
open_bundle_clears(st, path) ==
    IF ~CanOpen(path) THEN Returned("Panic", 0, "open", st)
    ELSE IF st.poisoned THEN Returned("Panic", 0, "lock", st)
    ELSE IF ~FinderState_new(path) THEN
        PanicLocked(Returned("Panic", 0, "not an archive",
                             [st EXCEPT !.locked = TRUE, !.singleton = None]))
    ELSE Returned("Ok", 0, "", [st EXCEPT !.locked = TRUE, !.singleton = path])

\* faulty variant: failures to open or decode the bundle are ignored
open_bundle_lenient(st, path) ==
    IF ~CanOpen(path) THEN Returned("Ok", 0, "", st)
    ELSE IF st.poisoned THEN Returned("Panic", 0, "lock", st)
    ELSE IF ~FinderState_new(path) THEN Returned("Ok", 0, "", [st EXCEPT !.locked = TRUE])
    ELSE Returned("Ok", 0, "", [st EXCEPT !.locked = TRUE, !.singleton = path])

\* open_bundle (find.rs 121-125)
open_bundle(st, path) ==
    IF ~CanOpen(path) THEN Returned("Panic", 0, "open", st)
    ELSE IF st.poisoned THEN Returned("Panic", 0, "lock", st)
    ELSE IF ~FinderState_new(path) THEN
        PanicLocked(Returned("Panic", 0, "not an archive", [st EXCEPT !.locked = TRUE]))
    ELSE Returned("Ok", 0, "", [st EXCEPT !.locked = TRUE, !.singleton = path])

\* faulty variant: an open bundle is consulted before the filesystem
get_readable_fd_bundle_first(st, name, format, must_exist, fault) ==
    LET s0  == [st EXCEPT !.locked = TRUE]
        ext == ExtNameResolve(name, format)
        r   == FinderState_get_readable_fd(s0, s0.singleton, name, format, must_exist, fault)
    IN  IF st.poisoned THEN Returned("Panic", 0, "lock", st)
        ELSE IF ext.panic THEN PanicLocked(Returned("Panic", 0, "file_name", s0))
        ELSE IF s0.singleton # None /\ r.tag = "Panic" THEN PanicLocked(r)
        ELSE IF s0.singleton # None /\ r.tag = "Some" THEN r
        ELSE IF name \in s0.disk THEN Returned("Some", FreeFd(s0), "", OpenDisk(s0, name))
        ELSE IF ext.path \in s0.disk THEN Returned("Some", FreeFd(s0), "", OpenDisk(s0, ext.path))
        ELSE Returned("None", 0, "", s0)

\* get_readable_fd (find.rs 127-154)
get_readable_fd(st, name, format, must_exist, fault) ==
    LET s0  == [st EXCEPT !.locked = TRUE]
        ext == ExtNameResolve(name, format)
        r   == FinderState_get_readable_fd(s0, s0.singleton, name, format, must_exist, fault)
    IN  IF st.poisoned THEN Returned("Panic", 0, "lock", st)
        ELSE IF name \in s0.disk THEN Returned("Some", FreeFd(s0), "", OpenDisk(s0, name))
        ELSE IF ext.panic THEN PanicLocked(Returned("Panic", 0, "file_name", s0))
        ELSE IF ext.path \in s0.disk THEN Returned("Some", FreeFd(s0), "", OpenDisk(s0, ext.path))
        ELSE IF s0.singleton = None THEN Returned("None", 0, "", s0)
        ELSE IF r.tag = "Panic" THEN PanicLocked(r)
        ELSE r

(******************************* actions ***********************************)
\* the state a call starts from: no handle of an earlier call is left
Entering ==
    [disk |-> disk, tmpNames |-> tmpNames, inodes |-> inodes, fds |-> fds,
     singleton |-> singleton, poisoned |-> poisoned,
     wh |-> {}, rh |-> {}, temp |-> 0, log |-> <<>>, attempts |-> <<>>, locked |-> FALSE]

NoCall ==
    [op |-> "none", name |-> <<>>, format |-> "Tex", must_exist |-> FALSE, path |-> "",
     tag |-> "None", fd |-> 0, why |-> "", attempts |-> <<>>, log |-> <<>>,
     fault |-> "none", locked |-> FALSE, was |-> None,
     pre |-> [fds |-> << >>, inodes |-> << >>, tmpNames |-> {}, poisoned |-> FALSE]]

\* the call's effects, and its record
Finish(r, call) ==
    /\ tmpNames' = r.st.tmpNames
    /\ inodes' = r.st.inodes
    /\ fds' = r.st.fds
    /\ singleton' = r.st.singleton
    /\ poisoned' = r.st.poisoned
    /\ last' = [call EXCEPT !.tag = r.tag, !.fd = r.fd, !.why = r.why,
                            !.attempts = r.st.attempts, !.log = r.st.log,
                            !.locked = r.st.locked, !.was = singleton]
    /\ UNCHANGED <<disk, ioVars, fmtVars, strmVars, concVars>>

\* the faults that can strike a call: those of an extraction, when it makes one
FaultsOf(name, format) ==
    IF get_readable_fd(Entering, name, format, FALSE, "none").st.log = <<>> THEN {"none"}
    ELSE Faults

Resolve(name, format, must_exist) ==
    /\ Cardinality(DOMAIN fds) < MaxFds
    /\ \E fault \in FaultsOf(name, format) :
          Finish(get_readable_fd(Entering, name, format, must_exist, fault),
                 [NoCall EXCEPT !.op = "resolve", !.name = name, !.format = format,
                                !.must_exist = must_exist, !.fault = fault,
                                !.pre = [fds |-> fds, inodes |-> inodes,
                                         tmpNames |-> tmpNames, poisoned |-> poisoned]])

OpenBundle(path) ==
    /\ path \in BundlePaths
    /\ Finish(open_bundle(Entering, path),
              [NoCall EXCEPT !.op = "open_bundle", !.path = path,
                             !.pre = [fds |-> fds, inodes |-> inodes,
                                      tmpNames |-> tmpNames, poisoned |-> poisoned]])

\* the host closes a descriptor it owns
Close(n) ==
    /\ n \in DOMAIN fds
    /\ LET st == Reclaim([Entering EXCEPT !.fds = [k \in DOMAIN fds \ {n} |-> fds[k]]])
       IN  Finish(Returned("Ok", n, "", st), [NoCall EXCEPT !.op = "close"])

\* the host moves the offset of a descriptor it owns (lseek)
HostSeek(n, k) ==
    /\ n \in DOMAIN fds
    /\ k \in 0 .. Len(FileBytes(inodes, fds[n].file))
    /\ k # fds[n].pos
    /\ Finish(Returned("Ok", n, "", [Entering EXCEPT !.fds[n].pos = k]),
              [NoCall EXCEPT !.op = "seek"])

FinderInit ==
    /\ disk \in SUBSET DiskCandidates
    /\ tmpNames = {}
    /\ inodes = << >>
    /\ fds = << >>
    /\ singleton = None
    /\ poisoned = FALSE
    /\ last = NoCall

FinderNext ==
    \/ \E name \in Names, format \in FileFormat, must_exist \in BOOLEAN :
          Resolve(name, format, must_exist)
    \/ \E path \in BundlePaths : OpenBundle(path)
    \/ \E n \in FdNums : Close(n)

(*************************** BufferedPrimaryIo *****************************)
\* a text is a sequence of characters; as_bytes() gives its UTF-8 encoding
Chars == {"a", "e_acute"}

Utf8(c) == IF c = "a" THEN <<97>> ELSE <<195, 169>>

RECURSIVE as_bytes(_)
as_bytes(text) ==
    IF text = <<>> THEN <<>> ELSE Utf8(Head(text)) \o as_bytes(Tail(text))

RECURSIVE SeqsUpTo(_, _)
SeqsUpTo(S, n) ==
    IF n = 0 THEN {<<>>}
    ELSE SeqsUpTo(S, n - 1) \cup { Append(q, x) : q \in { r \in SeqsUpTo(S, n - 1) : Len(r) = n - 1 }, x \in S }

Texts == SeqsUpTo(Chars, MaxTextLen)

\* BufferedPrimaryIo::from_text (stdstreams.rs 109-113): the provider's buffer
from_text(text) == as_bytes(text)

\* the furthest position the model seeks to
MaxPos == Len(buffer) + 1

\* Cursor::new(self.buffer.clone()) (stdstreams.rs 119): position 0 over the shared buffer.
\* out and eof record what has been read since the open, moved that a seek came between.
NewCursor == [pos |-> 0, out |-> <<>>, eof |-> FALSE, moved |-> FALSE]

\* faulty variant: the new cursor is a clone of the newest cursor, position included
input_open_primary_clone(io) ==
    [io  |-> [io EXCEPT !.cursors =
                 Append(@, IF @ = <<>> THEN NewCursor ELSE @[Len(@)])],
     ret |-> "Ok", n |-> Len(io.cursors) + 1, data |-> <<>>]

\* IoProvider::input_open_primary (stdstreams.rs 117-120)
input_open_primary(io) ==
    [io  |-> [io EXCEPT !.cursors = Append(@, NewCursor)],
     ret |-> "Ok", n |-> Len(io.cursors) + 1, data |-> <<>>]

Min2(a, b) == IF a < b THEN a ELSE b

\* faulty variant: the position lives with the shared buffer, so a read moves every cursor
cursor_read_shared(io, i, n) ==
    LET c     == io.cursors[i]
        start == Min2(c.pos, Len(io.buffer))
        k     == Min2(n, Len(io.buffer) - start)
        got   == SubSeq(io.buffer, start + 1, start + k)
    IN  [io  |-> [io EXCEPT !.cursors =
                     [j \in DOMAIN @ |-> [@[j] EXCEPT !.pos = c.pos + k]]],
         ret |-> "Ok", n |-> k, data |-> got]

\* Read for Cursor<SharedByteBuffer>, through as_ref (stdstreams.rs 48-52):
\* up to n bytes from the position, which advances by the bytes read
cursor_read(io, i, n) ==
    LET c     == io.cursors[i]
        start == Min2(c.pos, Len(io.buffer))
        k     == Min2(n, Len(io.buffer) - start)
        got   == SubSeq(io.buffer, start + 1, start + k)
    IN  [io  |-> [io EXCEPT !.cursors[i].pos = c.pos + k,
                            !.cursors[i].out = IF c.moved THEN <<>> ELSE c.out \o got,
                            !.cursors[i].eof = ~c.moved /\ k = 0],
         ret |-> "Ok", n |-> k, data |-> got]

\* InputFeatures::get_size (stdstreams.rs 55-57)
get_size(io, i) ==
    [io |-> io, ret |-> "Ok", n |-> Len(io.buffer), data |-> <<>>]

\* InputFeatures::try_seek (stdstreams.rs 59-61); whence is "Start", "Current" or "End"
try_seek(io, i, whence, d) ==
    LET c    == io.cursors[i]
        base == CASE whence = "Start"   -> 0
                  [] whence = "Current" -> c.pos
                  [] OTHER              -> Len(io.buffer)
        to   == base + d
    IN  IF to < 0 THEN [io |-> io, ret |-> "Err", n |-> 0, data |-> <<>>]
        ELSE [io  |-> [io EXCEPT !.cursors[i] = [pos |-> to, out |-> <<>>, eof |-> FALSE,
                                                 moved |-> TRUE]],
              ret |-> "Ok", n |-> to, data |-> <<>>]

Provider == [buffer |-> buffer, cursors |-> cursors]

NoIo == [op |-> "none", cursor |-> 0, ret |-> "Ok", n |-> 0, data |-> <<>>]

IoFinish(r, op, i) ==
    /\ buffer' = r.io.buffer
    /\ cursors' = r.io.cursors
    /\ lastIo' = [op |-> op, cursor |-> i, ret |-> r.ret, n |-> r.n, data |-> r.data]
    /\ UNCHANGED <<finderVars, fmtVars, strmVars, concVars>>

OpenPrimary ==
    /\ Len(cursors) < MaxCursors
    /\ IoFinish(input_open_primary(Provider), "open", Len(cursors) + 1)

CursorRead(i, n) ==
    /\ i \in 1 .. Len(cursors)
    /\ IoFinish(cursor_read(Provider, i, n), "read", i)

CursorSize(i) ==
    /\ i \in 1 .. Len(cursors)
    /\ IoFinish(get_size(Provider, i), "get_size", i)

CursorSeek(i, whence, d) ==
    /\ i \in 1 .. Len(cursors)
    /\ LET r == try_seek(Provider, i, whence, d)
       IN  /\ r.ret = "Ok" => r.n <= MaxPos
           /\ IoFinish(r, "seek", i)

\* the host drops its most recent handle
CursorDrop ==
    /\ cursors # <<>>
    /\ IoFinish([io |-> [Provider EXCEPT !.cursors = SubSeq(@, 1, Len(@) - 1)],
                 ret |-> "Ok", n |-> 0, data |-> <<>>], "drop", Len(cursors))

IoInit ==
    /\ \E text \in Texts : buffer = from_text(text)
    /\ cursors = <<>>
    /\ lastIo = NoIo

IoNext ==
    \/ OpenPrimary
    \/ \E i \in 1 .. MaxCursors, n \in 1 .. 2 : CursorRead(i, n)
    \/ \E i \in 1 .. MaxCursors : CursorSize(i)
    \/ \E i \in 1 .. MaxCursors, whence \in {"Start", "Current", "End"}, d \in -1 .. 2 :
          CursorSeek(i, whence, d)
    \/ CursorDrop

(************************** the format registry ****************************)
\* the codes the engine may pass: a c_int
Codes == (-MaxCode .. MaxCode) \cup {-2147483647 - 1, 2147483647}

\* the names whose augmented form is computed
FmtNames == Names \cup { << <<"d">>, <<"a">> >>, << <<"d">>, <<"a", ".tex">> >> }

NoFmt == [stage |-> "idle", code |-> 0, tag |-> None, name |-> <<>>,
          inResolve |-> [panic |-> FALSE, path |-> <<>>],
          inLocate  |-> [panic |-> FALSE, path |-> <<>>]]

\* the engine has a code and a name to ask for
FmtInit ==
    \E code \in Codes, name \in FmtNames :
        fmt = [NoFmt EXCEPT !.stage = "code", !.code = code, !.name = name]

\* the code is classified
Classify ==
    /\ fmt.stage = "code"
    /\ fmt' = [fmt EXCEPT !.stage = "tag", !.tag = c_format_to_rust(fmt.code)]
    /\ UNCHANGED <<finderVars, ioVars, strmVars, concVars>>

\* for a recognized code, get_readable_fd and then FinderState::get_readable_fd
\* compute the augmented name
Augment ==
    /\ fmt.stage = "tag"
    /\ fmt.tag # None
    /\ fmt' = [fmt EXCEPT !.stage = "ext",
                          !.inResolve = ExtNameResolve(fmt.name, fmt.tag),
                          !.inLocate = ExtNameLocate(fmt.name, fmt.tag)]
    /\ UNCHANGED <<finderVars, ioVars, strmVars, concVars>>

FmtNext == Classify \/ Augment

(****************************** from_stream ********************************)
Bytes == {1, 2}

\* let mut buf = [0u8; 8192]
ZeroBuf == [i \in 1 .. BufLen |-> 0]

\* the errors a read can return; Interrupted is one of them
IoErrors == {"Interrupted", "Other"}

\* what one stream.read(&mut buf) can deliver: 1 to buf.len() bytes
Chunks == UNION { [1 .. n -> Bytes] : n \in 1 .. BufLen }

\* stream.read(&mut buf) returning Ok(nbytes): the bytes land at the start of the
\* array, the rest of the array keeps what it held
read_into(buf, chunk) == chunk \o SubSeq(buf, Len(chunk) + 1, Len(buf))

\* faulty variant: the whole array is taken, the reported count ignored
extend_from_slice_whole(alldata, buf, nbytes) == alldata \o buf

\* alldata.extend_from_slice(&buf[..nbytes])
extend_from_slice(alldata, buf, nbytes) == alldata \o SubSeq(buf, 1, nbytes)

NoStream == [stage |-> "idle", buf |-> <<>>, alldata |-> <<>>, delivered |-> <<>>,
             ret |-> "", provider |-> <<>>, made |-> FALSE]

\* from_stream is entered: a zeroed array and an empty vector
StrmInit == strm = [NoStream EXCEPT !.stage = "loop", !.buf = ZeroBuf]

\* one turn of the loop whose read delivers bytes
ReadSome ==
    /\ strm.stage = "loop"
    /\ Len(strm.delivered) < MaxReads
    /\ \E chunk \in Chunks :
          LET buf == read_into(strm.buf, chunk) IN
          strm' = [strm EXCEPT !.buf = buf,
                               !.alldata = extend_from_slice(strm.alldata, buf, Len(chunk)),
                               !.delivered = Append(strm.delivered, chunk)]
    /\ UNCHANGED <<finderVars, ioVars, fmtVars, concVars>>

\* the read returns Ok(0): break, and the provider is made of alldata
ReadEnd ==
    /\ strm.stage = "loop"
    /\ strm' = [strm EXCEPT !.stage = "returned", !.ret = "Ok",
                            !.provider = strm.alldata, !.made = TRUE]
    /\ UNCHANGED <<finderVars, ioVars, fmtVars, concVars>>

\* the read returns Err(e): the ? operator returns it
ReadFail ==
    /\ strm.stage = "loop"
    /\ \E e \in IoErrors : strm' = [strm EXCEPT !.stage = "returned", !.ret = e]
    /\ UNCHANGED <<finderVars, ioVars, fmtVars, concVars>>

StrmNext == ReadSome \/ ReadEnd \/ ReadFail

(************************* threads and the Mutex ***************************)
Threads == 1 .. NumThreads

\* the singleton while `*s = Some(..)` is under way: the old value dropped, the new
\* one not yet in place
Torn == "Torn"

\* where a thread holds the MutexGuard: find.rs 131-153 and 124
Critical == {"r_disk", "r_match", "r_locate", "o_new", "o_drop", "o_store"}

Idle == [pc |-> "idle", path |-> "", seen |-> None, ret |-> ""]

\* faulty variant: lock() does not wait for the owner of the guard
MutexFree_always == TRUE

\* SINGLETON.lock() blocks while another thread owns the guard
MutexFree == holder = 0

\* faulty variant: a guard alive at a panic is leaked, not dropped
GuardDrop_leak(t, panicking) == IF holder = t /\ ~panicking THEN 0 ELSE holder

\* the MutexGuard s is dropped where the function is left, by return or by unwinding
GuardDrop(t, panicking) == IF holder = t THEN 0 ELSE holder

\* thread t leaves its call: the guard, if it has one, is dropped, and a panic
\* with the guard alive poisons the Mutex
Leave(t, ret) ==
    /\ thr' = [thr EXCEPT ![t] = [Idle EXCEPT !.ret = ret]]
    /\ holder' = GuardDrop(t, ret = "Panic")
    /\ poisoned' = (poisoned \/ (ret = "Panic" /\ holder = t))

Goto(t, pc) == thr' = [thr EXCEPT ![t].pc = pc]

ConcFrame == UNCHANGED <<disk, tmpNames, inodes, fds, last, ioVars, fmtVars, strmVars>>

\* thread t calls get_readable_fd (find.rs 127)
CallResolve(t) ==
    /\ thr[t].pc = "idle"
    /\ thr' = [thr EXCEPT ![t] = [Idle EXCEPT !.pc = "r_lock"]]
    /\ UNCHANGED <<holder, singleton, poisoned>> /\ ConcFrame

\* thread t calls open_bundle (find.rs 121)
CallOpenBundle(t, path) ==
    /\ thr[t].pc = "idle"
    /\ thr' = [thr EXCEPT ![t] = [Idle EXCEPT !.pc = "o_open", !.path = path]]
    /\ UNCHANGED <<holder, singleton, poisoned>> /\ ConcFrame

\* File::open(path).unwrap() (find.rs 122), before the lock
OpenFile(t) ==
    /\ thr[t].pc = "o_open"
    /\ IF CanOpen(thr[t].path)
       THEN Goto(t, "o_lock") /\ UNCHANGED <<holder, poisoned>>
       ELSE Leave(t, "Panic")
    /\ UNCHANGED singleton /\ ConcFrame

\* SINGLETON.lock().unwrap() (find.rs 123, 130): the guard is taken when free; on a
\* poisoned Mutex unwrap panics and the guard inside the error is dropped at once
Lock(t) ==
    /\ thr[t].pc \in {"r_lock", "o_lock"}
    /\ MutexFree
    /\ IF poisoned
       THEN Leave(t, "Panic")
       ELSE /\ Goto(t, IF thr[t].pc = "r_lock" THEN "r_disk" ELSE "o_new")
            /\ holder' = t
            /\ UNCHANGED poisoned
    /\ UNCHANGED singleton /\ ConcFrame

\* find.rs 135-146: the two lookups on disk, and file_name().unwrap() between them
DiskLookup(t) ==
    /\ thr[t].pc = "r_disk"
    /\ \E out \in {"hit", "no file name", "miss"} :
          CASE out = "hit"          -> Leave(t, "Some")
            [] out = "no file name" -> Leave(t, "Panic")
            [] OTHER                -> Goto(t, "r_match") /\ UNCHANGED <<holder, poisoned>>
    /\ UNCHANGED singleton /\ ConcFrame

\* match *s (find.rs 150-153): the singleton is read
MatchSingleton(t) ==
    /\ thr[t].pc = "r_match"
    /\ IF singleton = None
       THEN Leave(t, "None")
       ELSE /\ thr' = [thr EXCEPT ![t].pc = "r_locate", ![t].seen = singleton]
            /\ UNCHANGED <<holder, poisoned>>
    /\ UNCHANGED singleton /\ ConcFrame

\* fstate.get_readable_fd (find.rs 151, 75-109): the extraction from the bundle seen
Locate(t) ==
    /\ thr[t].pc = "r_locate"
    /\ \E ret \in {"Some", "None", "Panic"} : Leave(t, ret)
    /\ UNCHANGED singleton /\ ConcFrame

\* FinderState::new(file).unwrap() (find.rs 124, right-hand side)
NewFinder(t) ==
    /\ thr[t].pc = "o_new"
    /\ IF FinderState_new(thr[t].path)
       THEN Goto(t, "o_drop") /\ UNCHANGED <<holder, poisoned>>
       ELSE Leave(t, "Panic")
    /\ UNCHANGED singleton /\ ConcFrame

\* *s = .. (find.rs 124): the old value is dropped
DropOld(t) ==
    /\ thr[t].pc = "o_drop"
    /\ singleton' = Torn
    /\ Goto(t, "o_store")
    /\ UNCHANGED <<holder, poisoned>> /\ ConcFrame

\* *s = .. (find.rs 124): the new value is in place; the function ends (125)
Store(t) ==
    /\ thr[t].pc = "o_store"
    /\ singleton' = thr[t].path
    /\ Leave(t, "Ok")
    /\ ConcFrame

\* what a thread does once it is in a call and does not wait for the lock
Proceed(t) ==
    \/ OpenFile(t) \/ DiskLookup(t) \/ MatchSingleton(t) \/ Locate(t)
    \/ NewFinder(t) \/ DropOld(t) \/ Store(t)

ConcInit == thr = [t \in Threads |-> Idle] /\ holder = 0

ConcNext ==
    \E t \in Threads :
        \/ CallResolve(t)
        \/ \E path \in BundlePaths : CallOpenBundle(t, path)
        \/ Lock(t)
        \/ Proceed(t)

(**************************** specifications *******************************)
vars == <<finderVars, ioVars, fmtVars, strmVars, concVars>>

StrmIdle == strm = NoStream

ConcIdle == thr = << >> /\ holder = 0

FinderIdle ==
    /\ disk = {} /\ tmpNames = {} /\ inodes = << >> /\ fds = << >>
    /\ singleton = None /\ poisoned = FALSE /\ last = NoCall

IoIdle == buffer = <<>> /\ cursors = <<>> /\ lastIo = NoIo

FmtIdle == fmt = NoFmt

\* the finder, with no buffered input in use
Init == FinderInit /\ IoIdle /\ FmtIdle /\ StrmIdle /\ ConcIdle

Next == FinderNext

Spec == Init /\ [][Next]_vars

\* the buffered primary input, with the finder untouched
InitIo == IoInit /\ FinderIdle /\ FmtIdle /\ StrmIdle /\ ConcIdle

NextIo == IoNext

SpecIo == InitIo /\ [][NextIo]_vars

\* the format registry and the augmented names
InitFmt == FmtInit /\ FinderIdle /\ IoIdle /\ StrmIdle /\ ConcIdle

NextFmt == FmtNext

SpecFmt == InitFmt /\ [][NextFmt]_vars

\* the finder over bundles alone, with a host that seeks and closes what it was given
FdsNames == {P("a"), P("b")}

FdsBundles == {"b1.zip", "b2.zip"}

InitFds == FinderIdle /\ IoIdle /\ FmtIdle /\ StrmIdle /\ ConcIdle

NextFds ==
    \/ \E path \in FdsBundles : OpenBundle(path)
    \/ \E name \in FdsNames : Resolve(name, "TFM", FALSE)
    \/ \E n \in FdNums : Close(n)
    \/ \E n \in FdNums, k \in 0 .. 2 : HostSeek(n, k)

SpecFds == InitFds /\ [][NextFds]_vars

\* threads of one host calling get_readable_fd and open_bundle
InitConc ==
    /\ ConcInit
    /\ disk = {} /\ tmpNames = {} /\ inodes = << >> /\ fds = << >>
    /\ singleton = None /\ poisoned = FALSE /\ last = NoCall
    /\ IoIdle /\ FmtIdle /\ StrmIdle

NextConc == ConcNext

SpecConc == InitConc /\ [][NextConc]_vars

\* the same, with every thread scheduled and a lock that is fair to its waiters
Fairness ==
    \A t \in Threads : WF_vars(Proceed(t)) /\ SF_vars(Lock(t))

SpecConcFair == SpecConc /\ Fairness

\* from_stream
InitStrm == StrmInit /\ FinderIdle /\ IoIdle /\ FmtIdle /\ ConcIdle

NextStrm == StrmNext

SpecStrm == InitStrm /\ [][NextStrm]_vars

(******************************** claims ***********************************)
\* the last call was a resolve that got past SINGLETON.lock().unwrap()
Resolved == last.op = "resolve" /\ last.locked

LastExt == ExtNameResolve(last.name, last.format).path

\* the descriptor the last call returned is open in the host's table
ReturnedFd == last.tag = "Some" /\ last.fd \in DOMAIN fds

\* the steps of one successful extraction, in order
Protocol == <<"mktemp", "create", "copy", "close", "open", "into_raw_fd", "unlink">>

\* C1: a resolve whose name opens directly on the filesystem returns a descriptor,
\* at offset 0, onto that very disk file and queries the archive not once (no
\* exact-name and no extension-augmented lookup, no extraction step), whether or
\* not a bundle is open and whether or not it holds an entry of that name.
C1_DiskHitSkipsArchive ==
    (Resolved /\ last.name \in disk) =>
        /\ ReturnedFd
        /\ fds[last.fd] = [file |-> DiskFile(last.name), pos |-> 0]
        /\ last.attempts = <<>>
        /\ last.log = <<>>

\* C1 witness: the name is on disk and is also a good entry of the open bundle
C1_Witness ==
    /\ Resolved /\ last.name \in disk /\ last.tag = "Some"
    /\ last.was # None
    /\ Entry(last.was, last.name).kind = "good"

\* C2: when the name and the augmented name are not on disk, the bundle is open,
\* has no entry under the name itself but a readable one under the augmented name,
\* and no temporary-file primitive fails, resolve returns a descriptor onto a regular
\* (seekable) temporary file at offset 0 whose bytes are exactly the entry's, the
\* copy having been made and closed before the file was reopened for reading.
C2_ExtEntryBytes ==
    ( /\ Resolved /\ HasFileName(last.name)
      /\ last.name \notin disk /\ LastExt \notin disk
      /\ last.was # None
      /\ Entry(last.was, last.name).kind = "absent"
      /\ Entry(last.was, LastExt).kind = "good"
      /\ last.fault = "none" ) =>
        /\ ReturnedFd
        /\ fds[last.fd].file.kind = "temp"
        /\ fds[last.fd].pos = 0
        /\ FileBytes(inodes, fds[last.fd].file) = Entry(last.was, LastExt).data
        /\ last.log = Protocol
        /\ last.attempts = << [name |-> last.name, out |-> "FileNotFound"],
                              [name |-> LastExt, out |-> "Ok"] >>

\* C2 witness: "b" with TFM is served from the entry "b.tfm", two bytes long
C2_Witness ==
    /\ Resolved /\ last.name = P("b") /\ last.format = "TFM" /\ last.fault = "none"
    /\ ReturnedFd
    /\ Len(FileBytes(inodes, fds[last.fd].file)) = 2

\* C3 (as claimed): a resolve of a name that is not on disk, nor on disk with the
\* extension appended, with no bundle open or a bundle holding neither name,
\* returns none; it never panics.
C3_AbsenceIsSoft ==
    ( /\ Resolved
      /\ last.name \notin disk /\ LastExt \notin disk
      /\ \/ last.was = None
         \/ /\ Entry(last.was, last.name).kind = "absent"
            /\ Entry(last.was, LastExt).kind = "absent" ) =>
        last.tag = "None"

C5_OtherFailuresFatal ==
    ( /\ Resolved
      /\ \E i \in DOMAIN last.attempts : last.attempts[i].out \in {"Io", "Panic"} ) =>
        last.tag = "Panic"

\* C6: open_bundle on a path that cannot be opened or that is no valid archive
\* ends in a panic and leaves the singleton's value as it was.
C6_BadBundleFatal ==
    ( /\ last.op = "open_bundle"
      /\ ~CanOpen(last.path) \/ ~IsArchive(last.path) ) =>
        /\ last.tag = "Panic"
        /\ singleton = last.was

\* C6 witness: open_bundle got the lock and panicked on a file that is no archive
C6_Witness ==
    /\ last.op = "open_bundle" /\ last.path = "junk.txt"
    /\ last.locked /\ last.tag = "Panic"

\* the state the last resolve started from
Before ==
    [Entering EXCEPT !.fds = last.pre.fds, !.inodes = last.pre.inodes,
                     !.tmpNames = last.pre.tmpNames, !.poisoned = last.pre.poisoned,
                     !.singleton = last.was]

\* C7: run from the state the last resolve started in, the same call with
\* must_exist flipped returns the same result and leaves the same descriptors,
\* files, temporary names, singleton and lock state, after the same lookups.
C7_MustExistIgnored ==
    last.op = "resolve" =>
        LET r == get_readable_fd(Before, last.name, last.format, ~last.must_exist, last.fault)
        IN  /\ r.tag = last.tag /\ r.fd = last.fd /\ r.why = last.why
            /\ r.st.fds = fds /\ r.st.inodes = inodes /\ r.st.tmpNames = tmpNames
            /\ r.st.singleton = singleton /\ r.st.poisoned = poisoned
            /\ r.st.attempts = last.attempts /\ r.st.log = last.log

\* C7 witness: must_exist was true and the resource is in no store: still none
C7_Witness ==
    /\ Resolved /\ last.must_exist /\ last.tag = "None"
    /\ last.was # None /\ Len(last.attempts) = 2

\* C8: after every call no temporary name is left in the namespace; the steps an
\* extraction made are a prefix of create temp, create/truncate, copy, close,
\* reopen, take the descriptor, always ended by the removal of the path, and all
\* of them when a temporary descriptor is returned; every temporary descriptor
\* the host has not closed still has its bytes.
C8_TempUnlinked ==
    /\ tmpNames = {}
    /\ \A n \in DOMAIN fds :
          fds[n].file.kind = "temp" => fds[n].file.ino \in DOMAIN inodes
    /\ \/ last.log = <<>>
       \/ \E k \in 1 .. 6 : last.log = Append(SubSeq(Protocol, 1, k), "unlink")
    /\ (ReturnedFd /\ fds[last.fd].file.kind = "temp") => last.log = Protocol

\* C8 witness: a resolve failed fatally after its temporary file was created,
\* while a descriptor of an earlier extraction is still open
C8_Witness ==
    /\ Resolved /\ last.tag = "Panic" /\ last.log # <<>>
    /\ \E n \in DOMAIN fds : fds[n].file.kind = "temp" /\ FileBytes(inodes, fds[n].file) # <<>>

\* C9: an operation on one cursor of the buffered input (open, read, size, seek,
\* drop) leaves every other cursor, its position included, and the shared
\* buffer's bytes as they were.
C9_CursorsIndependent ==
    [][ /\ buffer' = buffer
        /\ \A i \in 1 .. Len(cursors) :
              (i <= Len(cursors') /\ i # lastIo'.cursor) => cursors'[i] = cursors[i] ]_vars

\* C9 witness: after a read or seek on one of two cursors their positions differ
C9_Witness ==
    /\ Len(cursors) = 2 /\ lastIo.op \in {"read", "seek"}
    /\ cursors[1].pos # cursors[2].pos
    /\ Len(buffer) = 2

\* C10: every open succeeds and adds a cursor at position 0; a cursor that was only
\* read has returned exactly the buffer's bytes before its position, and the whole
\* buffer once a read returned 0 bytes, whatever happened on other cursors before
\* (so any two cursors read to the end returned the same bytes); get_size returns
\* the buffer's length.
C10_FreshCursorReadsAll ==
    /\ lastIo.op = "open" =>
          /\ lastIo.ret = "Ok"
          /\ lastIo.cursor = Len(cursors)
          /\ cursors[Len(cursors)] = NewCursor
    /\ \A i \in 1 .. Len(cursors) :
          /\ ~cursors[i].moved => cursors[i].out = SubSeq(buffer, 1, cursors[i].pos)
          /\ cursors[i].eof => cursors[i].out = buffer
    /\ \A i, j \in 1 .. Len(cursors) :
          (cursors[i].eof /\ cursors[j].eof) => cursors[i].out = cursors[j].out
    /\ lastIo.op = "get_size" => (lastIo.ret = "Ok" /\ lastIo.n = Len(buffer))

\* C10 witness: the second cursor, opened after the first was sought away, has
\* been read to the end of a two-byte buffer
C10_Witness ==
    /\ Len(cursors) = 2 /\ Len(buffer) = 2
    /\ cursors[1].moved /\ cursors[1].pos # 0
    /\ cursors[2].eof /\ cursors[2].out = buffer

\* the mapping the engine's ABI fixes, written out
AbiTag(code) ==
    IF code = 3 THEN "TFM"
    ELSE IF code = 10 THEN "Format"
    ELSE IF code = 25 THEN "Pict"
    ELSE IF code = 26 THEN "Tex"
    ELSE None

\* C11: every code is classified; 3 gives TFM, 10 PrecompiledFormat (Format), 25
\* Picture (Pict), 26 TeXSource (Tex) and any other code none; a tag is the tag of
\* one code only.
C11_Classify ==
    fmt.stage \in {"tag", "ext"} =>
        /\ fmt.tag \in FileFormat \cup {None}
        /\ fmt.tag = AbiTag(fmt.code)
        /\ fmt.tag # None =>
              \A other \in Codes : c_format_to_rust(other) = fmt.tag => other = fmt.code

\* C11 witness: code 10 was classified as the precompiled format
C11_Witness == fmt.stage = "tag" /\ fmt.code = 10 /\ fmt.tag = "Format"

\* the name with its directory part kept and ext appended to its final component
Appended(name, ext) ==
    SubSeq(name, 1, Len(name) - 1) \o << name[Len(name)] \o <<ext>> >>

\* C14: get_readable_fd and FinderState::get_readable_fd compute the same augmented
\* name: the directory part is kept and the canonical extension is appended to the
\* final component, also when that component already has an extension, which is
\* neither replaced nor stripped.
C14_ExtAppended ==
    fmt.stage = "ext" =>
        /\ fmt.inResolve = fmt.inLocate
        /\ HasFileName(fmt.name) =>
              /\ ~fmt.inLocate.panic
              /\ fmt.inLocate.path = Appended(fmt.name, format_to_extension(fmt.tag))
              /\ Len(fmt.inLocate.path) = Len(fmt.name)
              /\ Len(fmt.inLocate.path[Len(fmt.name)]) = Len(fmt.name[Len(fmt.name)]) + 1

\* C14 witness: d/a.tex asked for as a TeX source became d/a.tex.tex
C14_Witness ==
    /\ fmt.stage = "ext" /\ fmt.code = 26
    /\ fmt.name = << <<"d">>, <<"a", ".tex">> >>
    /\ fmt.inResolve.path = << <<"d">>, <<"a", ".tex", ".tex">> >>
    /\ fmt.inLocate.path = << <<"d">>, <<"a", ".tex", ".tex">> >>

\* the bundle of the last call holds an entry under this name
InBundle(name) == last.was # None /\ Entry(last.was, name).kind # "absent"

\* the names the last call looked up in the bundle, in order
Consulted == [i \in DOMAIN last.attempts |-> last.attempts[i].name]

\* C13 (as claimed): resolve serves the first hit of (1) the name on disk, (2) the
\* augmented name on disk, (3) the bundle entry under the name, (4) the bundle
\* entry under the augmented name; a later store is consulted only when every
\* earlier one has missed, so the augmented name on disk wins over the entry
\* under the name, and the entry under the name over the entry under the
\* augmented name.
C13_FirstHitWins ==
    (Resolved /\ HasFileName(last.name)) =>
        /\ last.name \in disk =>
              /\ ReturnedFd /\ fds[last.fd].file = DiskFile(last.name)
              /\ Consulted = <<>>
        /\ (last.name \notin disk /\ LastExt \in disk) =>
              /\ ReturnedFd /\ fds[last.fd].file = DiskFile(LastExt)
              /\ Consulted = <<>>
        /\ (last.name \notin disk /\ LastExt \notin disk /\ InBundle(last.name)) =>
              /\ Consulted = <<last.name>>
              /\ last.tag = "Some" =>
                    /\ ReturnedFd
                    /\ FileBytes(inodes, fds[last.fd].file) = Entry(last.was, last.name).data
        /\ ( /\ last.name \notin disk /\ LastExt \notin disk
             /\ ~InBundle(last.name) /\ InBundle(LastExt) ) =>
              /\ Consulted = <<last.name, LastExt>>
              /\ last.tag = "Some" =>
                    /\ ReturnedFd
                    /\ FileBytes(inodes, fds[last.fd].file) = Entry(last.was, LastExt).data

Called == last.op \in {"resolve", "open_bundle"}

\* C18: a call that fails fatally with the singleton lock held (open_bundle of a
\* file that is no archive; in resolve an extraction or temporary-file failure or a
\* name with no final component) leaves the singleton as it was and poisons the
\* lock; once the lock is poisoned every later resolve and open_bundle fails when
\* it takes the lock, a resolve of a name that is on disk included, and changes
\* nothing; an open_bundle of a path that cannot be opened fails before it takes
\* the lock and leaves the singleton and the lock as they were.
C18_PoisonedLock ==
    Called =>
        /\ (last.tag = "Panic" /\ ~last.locked) =>
              \/ last.why = "lock" /\ last.pre.poisoned
              \/ last.why = "open" /\ last.op = "open_bundle" /\ ~CanOpen(last.path)
        /\ (last.tag = "Panic" /\ last.locked) =>
              /\ singleton = last.was
              /\ poisoned
        /\ last.pre.poisoned =>
              /\ last.tag = "Panic" /\ ~last.locked
              /\ last.why = IF last.op = "open_bundle" /\ ~CanOpen(last.path)
                            THEN "open" ELSE "lock"
              /\ singleton = last.was /\ poisoned
              /\ fds = last.pre.fds /\ inodes = last.pre.inodes
        /\ (last.op = "open_bundle" /\ ~CanOpen(last.path)) =>
              /\ last.tag = "Panic" /\ last.why = "open" /\ ~last.locked
              /\ singleton = last.was
              /\ poisoned = last.pre.poisoned
        /\ (last.tag # "Panic") => (poisoned = last.pre.poisoned /\ ~poisoned)

\* C18 witness: with the lock poisoned and a bundle open, a resolve of a name that
\* is on disk failed at the lock
C18_Witness ==
    /\ last.op = "resolve" /\ last.pre.poisoned
    /\ last.name \in disk /\ last.was # None
    /\ last.tag = "Panic" /\ last.why = "lock"

RECURSIVE Concat(_)
\* the chunks of a sequence of reads, end to end
Concat(chunks) == IF chunks = <<>> THEN <<>> ELSE Head(chunks) \o Concat(Tail(chunks))

\* C16: from_stream reads until the first read that returns 0; the provider's
\* buffer is then the bytes each earlier read delivered, in order, none lost, none
\* twice and none taken from what the array held beyond the reported count; when a
\* read fails from_stream returns that error and makes no provider.
C16_ReadsToExhaustion ==
    /\ strm.stage = "loop" => (strm.alldata = Concat(strm.delivered) /\ ~strm.made)
    /\ (strm.stage = "returned" /\ strm.ret = "Ok") =>
          (strm.made /\ strm.provider = Concat(strm.delivered))
    /\ (strm.stage = "returned" /\ strm.ret # "Ok") =>
          (strm.ret \in IoErrors /\ ~strm.made /\ strm.provider = <<>>)

\* C16 witness: a full read, then a shorter one over the stale array, then the end
C16_Witness ==
    /\ strm.stage = "returned" /\ strm.ret = "Ok"
    /\ Len(strm.delivered) = 2
    /\ Len(strm.delivered[1]) = BufLen /\ Len(strm.delivered[2]) = 1
    /\ strm.buf[BufLen] = strm.delivered[1][BufLen]
    /\ Len(strm.provider) = BufLen + 1

\* the descriptors open before the step, other than n, are as they were after it:
\* same file, same offset, same bytes
OthersKept(n) ==
    \A m \in DOMAIN fds \ {n} :
        /\ m \in DOMAIN fds'
        /\ fds'[m] = fds[m]
        /\ FileBytes(inodes', fds'[m].file) = FileBytes(inodes, fds[m].file)

\* the step is a resolve served from the bundle
ExtractedStep == last'.op = "resolve" /\ last'.tag = "Some" /\ last'.attempts # <<>>

\* C17: every resolve served from the bundle makes a new temporary file and gives
\* the caller a new descriptor onto it, at offset 0 and with the entry's bytes,
\* keeping no name and no handle of it; the file is none that an open descriptor
\* is on, so two resolves of one entry give two descriptors on two files with
\* offsets of their own; closing or seeking a descriptor changes no other
\* descriptor, and no resolve changes a descriptor handed out before.
C17_FreshDescriptor ==
    [][ /\ ExtractedStep =>
              /\ last'.fd \notin DOMAIN fds /\ last'.fd \in DOMAIN fds'
              /\ fds'[last'.fd].file.kind = "temp"
              /\ fds'[last'.fd].pos = 0
              /\ \A m \in DOMAIN fds : fds[m].file # fds'[last'.fd].file
              /\ FileBytes(inodes', fds'[last'.fd].file)
                    = Entry(singleton, last'.attempts[Len(last'.attempts)].name).data
              /\ tmpNames' = tmpNames /\ singleton' = singleton
              /\ OthersKept(last'.fd)
        /\ last'.op \in {"seek", "close"} => OthersKept(last'.fd)
        /\ last'.op \in {"resolve", "open_bundle"} => OthersKept(0) ]_vars

\* C17 witness: two descriptors from two resolves of one entry, on two files with
\* the same bytes, one of them moved off offset 0 by the host
C17_Witness ==
    /\ last.op = "seek"
    /\ \E m, n \in DOMAIN fds :
          /\ m # n
          /\ fds[m].file.kind = "temp" /\ fds[n].file.kind = "temp"
          /\ fds[m].file # fds[n].file
          /\ FileBytes(inodes, fds[m].file) = FileBytes(inodes, fds[n].file)
          /\ fds[m].pos # fds[n].pos

InCritical == { t \in Threads : thr[t].pc \in Critical }

Extracting == { t \in Threads : thr[t].pc = "r_locate" }

\* C12: whatever the interleaving of threads in get_readable_fd and open_bundle, at
\* most one of them at a time is where the singleton is read or written, and it is
\* the owner of the guard; no two extractions are under way at once; a resolve
\* never reads a bundle that is half installed, and the bundle it extracts from
\* stays the one it read; a thread that is not in a call, or has not yet taken the
\* lock, does not own the guard: it is released on every way out of either call.
C12_MutualExclusion ==
    /\ Cardinality(InCritical) <= 1
    /\ \A t \in Threads : (thr[t].pc \in Critical) <=> (holder = t)
    /\ Cardinality(Extracting) <= 1
    /\ \A t \in Threads :
          /\ thr[t].pc = "r_match" => singleton # Torn
          /\ thr[t].pc = "r_locate" =>
                (thr[t].seen = singleton /\ thr[t].seen \notin {None, Torn})
    /\ singleton = Torn => \E t \in Threads : thr[t].pc = "o_store" /\ holder = t

\* C12 witness: one thread is half way through installing a bundle over another
\* while a second waits in get_readable_fd for the lock
C12_Witness ==
    /\ singleton = Torn
    /\ \E t, u \in Threads :
          /\ thr[t].pc = "o_store" /\ holder = t
          /\ thr[u].pc = "r_lock"

\* C15: with every thread scheduled and a fair lock, every call of get_readable_fd
\* (and of open_bundle) that has begun comes to its end: it gets the lock and then
\* returns a descriptor, returns none or fails; no thread waits for ever, none
\* holds the lock while it waits for another.
C15_Terminates ==
    \A t \in Threads : (thr[t].pc # "idle") ~> (thr[t].pc = "idle" /\ thr[t].ret # "")

\* C15 witness: a resolve has returned a descriptor while another thread, in a
\* resolve too, waits for the lock a third party holds or has just released
C15_Witness ==
    \E t, u \in Threads :
        /\ thr[t].pc = "idle" /\ thr[t].ret = "Some"
        /\ thr[u].pc = "r_lock"

====
